---- MODULE Spec2Model ----
(***************************************************************************)
(* Scratchpads: filename allocation, content-driven auto-rename and the    *)
(* suggestion provider chain.                                              *)
(*                                                                         *)
(* Text is modelled as a sequence of one-character strings, so that the    *)
(* regular expressions of the source are computed character by character.  *)
(*                                                                         *)
(* The repository holds two texts of AIFilenameService: src/ai-filename.ts *)
(* and the copy at the head of part_000.  `build` says which one runs.     *)
(***************************************************************************)
EXTENDS Integers, Sequences, FiniteSets, TLC

VARIABLES
    build,      \* which text of AIFilenameService the build links
    raw,        \* sanitize: the raw model output handed to sanitizeFilename
    stage,      \* sanitize: "input", "once" (sanitized), "twice" (sanitized again)
    out,        \* sanitize: sanitizeFilename(raw)
    out2,       \* sanitize: sanitizeFilename(out.stem)
    files,      \* create: the filenames in the scratchpad root (the directory listing)
    autoPaste,  \* create: the autoPaste configuration value
    creator,    \* create: the createScratchpad call in progress, its position and locals
    second,     \* create: a createScratchpad call that starts after it, position and locals
    created,    \* create: how many createScratchpad calls have started
    removed,    \* create: how many removeScratchpad calls have run
    removal,    \* remove-all: the promptForRemoval value and the removeAllScratchpads call
    cfg,        \* chain: configuration values renameProvider and openAIApiKey
    lm,         \* chain: whether vscode.lm and LanguageModelChatMessage exist
    ch,         \* chain: the suggestFilename call, its position and locals
    counts,     \* chain: calls made so far, by kind
    faults,     \* chain: the failures that have happened during the call
    platform,   \* rename: process.platform
    conf,       \* rename: configuration values filePrefix and autoRenameMinChars
    disk,       \* rename: the files that exist, path -> identity of the content
    tabs,       \* rename: the paths open in editor tabs
    dirty,      \* rename: the open paths whose document has unsaved changes
    atts,       \* rename: the autoRenameScratchpadFromDocument calls, position and locals
    clobbered,  \* rename: the contents a rename has replaced
    userSteps   \* rename: how many edits and saves the user has made

sanVars == <<raw, stage, out, out2>>
allocVars == <<files, autoPaste, creator, second, created, removed, removal>>
chainVars == <<cfg, lm, ch, counts, faults>>
renameVars == <<platform, conf, disk, tabs, dirty, atts, clobbered, userSteps>>
vars == <<build, sanVars, allocVars, chainVars, renameVars>>

Builds == {"ai-filename.ts", "part_000"}

(***************************************************************************)
(* Characters                                                              *)
(***************************************************************************)
LowerLetters == {"a", "b", "c", "d", "e", "f", "g", "h", "i", "j", "k", "l", "m",
                 "n", "o", "p", "q", "r", "s", "t", "u", "v", "w", "x", "y", "z"}
UpperLetters == {"A", "B", "C", "D", "E", "F", "G", "H", "I", "J", "K", "L", "M",
                 "N", "O", "P", "Q", "R", "S", "T", "U", "V", "W", "X", "Y", "Z"}
Digits == {"0", "1", "2", "3", "4", "5", "6", "7", "8", "9"}
Whitespace == {" ", "\t", "\r", "\n"}
\* the characters of /[`"']/; a TLA+ string cannot hold the backquote, which
\* the code treats exactly like the other two
Quotes == {"\"", "'"}
AlnumLower == LowerLetters \cup Digits

UpperSeq == <<"A", "B", "C", "D", "E", "F", "G", "H", "I", "J", "K", "L", "M",
              "N", "O", "P", "Q", "R", "S", "T", "U", "V", "W", "X", "Y", "Z">>
LowerSeq == <<"a", "b", "c", "d", "e", "f", "g", "h", "i", "j", "k", "l", "m",
              "n", "o", "p", "q", "r", "s", "t", "u", "v", "w", "x", "y", "z">>

\* String.prototype.toLowerCase on one character
LowerChar(c) ==
    IF c \in UpperLetters
    THEN LowerSeq[CHOOSE i \in 1..26 : UpperSeq[i] = c]
    ELSE c

toLowerCase(s) == [i \in 1..Len(s) |-> LowerChar(s[i])]

Min(a, b) == IF a < b THEN a ELSE b

\* the characters of s at the positions that satisfy Keep, in order
Positions(s, Keep(_)) == SelectSeq([i \in 1..Len(s) |-> i], Keep)

(***************************************************************************)
(* AIFilenameService.sanitizeFilename, one operator per step of the chain  *)
(***************************************************************************)
\* a variant that keeps every line
FirstLine_Whole(s) == s
\* input.split('\n')[0] || ''
FirstLine(s) ==
    IF \E i \in 1..Len(s) : s[i] = "\n"
    THEN SubSeq(s, 1, (CHOOSE i \in 1..Len(s) :
                          /\ s[i] = "\n"
                          /\ \A j \in 1..(i - 1) : s[j] # "\n") - 1)
    ELSE s

\* .trim()
trim(s) ==
    LET solid == {i \in 1..Len(s) : s[i] \notin Whitespace}
    IN IF solid = {} THEN <<>>
       ELSE SubSeq(s, CHOOSE i \in solid : \A j \in solid : i <= j,
                      CHOOSE i \in solid : \A j \in solid : i >= j)

\* .replace(/[`"']/g, '')
StripQuotes(s) == SelectSeq(s, LAMBDA c : c \notin Quotes)

\* .replace(/\.[a-z0-9]+$/i, ''): a dot followed by one or more letters or
\* digits up to the end of the text
StripExtension(s) ==
    LET hits == {i \in 1..Len(s) :
                    /\ s[i] = "."
                    /\ i < Len(s)
                    /\ \A j \in (i + 1)..Len(s) : LowerChar(s[j]) \in AlnumLower}
    IN IF hits = {} THEN s
       ELSE SubSeq(s, 1, (CHOOSE i \in hits : \A j \in hits : i <= j) - 1)

\* .replace(/[^a-z0-9\-\s_]/g, ' ')
BlankInvalid(s) ==
    [i \in 1..Len(s) |->
        IF s[i] \in AlnumLower \cup {"-", "_"} \cup Whitespace THEN s[i] ELSE " "]

\* .replace(/[\s_]+/g, '-'): every maximal run of whitespace and underscores
\* becomes one hyphen
HyphenateRuns(s) ==
    LET gap(i) == s[i] \in Whitespace \cup {"_"}
        idx == Positions(s, LAMBDA i : ~gap(i) \/ i = 1 \/ ~gap(i - 1))
    IN [k \in 1..Len(idx) |-> IF gap(idx[k]) THEN "-" ELSE s[idx[k]]]

\* .replace(/-+/g, '-')
CollapseHyphens(s) ==
    LET idx == Positions(s, LAMBDA i : s[i] # "-" \/ i = 1 \/ s[i - 1] # "-")
    IN [k \in 1..Len(idx) |-> s[idx[k]]]

\* .replace(/^-|-$/g, ''): at most one hyphen at each end
StripEdgeHyphens(s) ==
    LET lead == IF Len(s) >= 1 /\ s[1] = "-" THEN 1 ELSE 0
        trail == IF Len(s) >= 2 /\ s[Len(s)] = "-" THEN 1 ELSE 0
    IN SubSeq(s, 1 + lead, Len(s) - trail)

\* the length sanitizeFilename truncates to: .slice(0, 60)
MaxStemLen == 60

slice(s, n) == SubSeq(s, 1, Min(Len(s), n))

Absent == [ok |-> FALSE, stem |-> <<>>]
Present(s) == [ok |-> TRUE, stem |-> s]

\* the chain up to and including .slice(0, 60), the same in both texts
CleanedAndCut(input) ==
    slice(StripEdgeHyphens(CollapseHyphens(HyphenateRuns(BlankInvalid(
        StripExtension(StripQuotes(toLowerCase(trim(FirstLine(input))))))))),
          MaxStemLen)

\* src/ai-filename.ts strips the edge hyphens again after the cut;
\* the text in part_000 ends the chain at the cut
sanitizeFilename(b, input) ==
    LET cleaned == IF b = "ai-filename.ts"
                   THEN StripEdgeHyphens(CleanedAndCut(input))
                   ELSE CleanedAndCut(input)
    IN IF cleaned = <<>> THEN Absent ELSE Present(cleaned)

(***************************************************************************)
(* Inputs of sanitizeFilename: a short head, a run of letters, a short     *)
(* tail, so that the cut at 60 falls inside the tail.                      *)
(***************************************************************************)
MaxHead == 1
MaxTail == 2
MaxFill == 59

SanAlphabet == {"a", "B", "7", "-", "_", " ", ".", "'", "!", "\n"}
\* the characters after the fill: the ones that act on the end of the text
TailAlphabet == {"a", "7", "-", "_", " ", ".", "\n"}
SeqsUpTo(S, n) == UNION {[1..k -> S] : k \in 0..n}
Fill(n) == [i \in 1..n |-> "a"]
FillLens == {0} \cup {n \in (MaxFill - 1)..MaxFill : n >= 0}
RawInputs ==
    {h \o Fill(f) \o t : h \in SeqsUpTo(SanAlphabet, MaxHead),
                         f \in FillLens,
                         t \in SeqsUpTo(TailAlphabet, MaxTail)}

SanInit ==
    /\ raw \in RawInputs
    /\ stage = "input"
    /\ out = Absent
    /\ out2 = Absent

\* a backend hands the accumulated model text to sanitizeFilename
Sanitize ==
    /\ stage = "input"
    /\ out' = sanitizeFilename(build, raw)
    /\ stage' = "once"
    /\ UNCHANGED <<build, raw, out2>>

\* the stem is fed to sanitizeFilename again
Resanitize ==
    /\ stage = "once"
    /\ out.ok
    /\ out2' = sanitizeFilename(build, out.stem)
    /\ stage' = "twice"
    /\ UNCHANGED <<build, raw, out>>

SanIdle ==
    /\ raw = <<>>
    /\ stage = "twice"
    /\ out = Absent
    /\ out2 = Absent

(***************************************************************************)
(* Regular expressions built from an escaped prefix                        *)
(***************************************************************************)
\* the characters of /[.*+?^${}()|[\]\\]/
RegExpSpecials == {".", "*", "+", "?", "^", "$", "{", "}", "(", ")", "|", "[", "]", "\\"}

RECURSIVE EscapeRegExp(_)
\* text.replace(/[.*+?^${}()|[\]\\]/g, '\\$&'): a backslash before each special
EscapeRegExp(s) ==
    IF s = <<>> THEN <<>>
    ELSE (IF Head(s) \in RegExpSpecials THEN <<"\\", Head(s)>> ELSE <<Head(s)>>)
         \o EscapeRegExp(Tail(s))

RECURSIVE PatternAtoms(_)
\* new RegExp(source), for a source of plain characters, escaped characters
\* and dots: the atoms, each matching one character
PatternAtoms(p) ==
    IF p = <<>> THEN <<>>
    ELSE IF Head(p) = "\\" /\ Len(p) >= 2
         THEN <<[any |-> FALSE, ch |-> p[2]]>> \o PatternAtoms(Tail(Tail(p)))
         ELSE <<[any |-> Head(p) = ".", ch |-> Head(p)]>> \o PatternAtoms(Tail(p))

LineTerminators == {"\n", "\r"}

\* the atoms match the first Len(atoms) characters of text (the ^ anchor)
MatchesPrefix(atoms, text) ==
    /\ Len(text) >= Len(atoms)
    /\ \A k \in 1..Len(atoms) :
          IF atoms[k].any THEN text[k] \notin LineTerminators
          ELSE text[k] = atoms[k].ch

\* \.(.+)$ at position i of text: a dot and one or more characters, none a
\* line terminator, up to the end
DotAndMore(text, i) ==
    /\ i < Len(text)
    /\ text[i] = "."
    /\ \A j \in (i + 1)..Len(text) : text[j] \notin LineTerminators

\* the length of the run of digits of text that starts at position i
RECURSIVE DigitRun(_, _)
DigitRun(text, i) ==
    IF i <= Len(text) /\ text[i] \in Digits THEN 1 + DigitRun(text, i + 1) ELSE 0

DigitSeq == <<"0", "1", "2", "3", "4", "5", "6", "7", "8", "9">>
DigitValue(c) == (CHOOSE i \in 1..10 : DigitSeq[i] = c) - 1

RECURSIVE parseInt(_)
\* parseInt(digits, 10)
parseInt(ds) ==
    IF ds = <<>> THEN 0
    ELSE 10 * parseInt(SubSeq(ds, 1, Len(ds) - 1)) + DigitValue(ds[Len(ds)])

RECURSIVE NumberToString(_)
\* `${number}`
NumberToString(n) ==
    IF n < 10 THEN <<DigitSeq[n + 1]>>
    ELSE NumberToString(n \div 10) \o <<DigitSeq[(n % 10) + 1]>>

(***************************************************************************)
(* ScratchpadsManager: filename allocation                                  *)
(***************************************************************************)
\* Utils.getScratchpadFiles(): the names in the scratchpad root
getScratchpadFiles == files

\* new RegExp(`^${escapedPrefix}\\.(.+)$`).test(file)
BasePatternTest(baseFilename, file) ==
    LET atoms == PatternAtoms(EscapeRegExp(baseFilename))
    IN MatchesPrefix(atoms, file) /\ DotAndMore(file, Len(atoms) + 1)

\* a variant that also counts the numbered names base<digits>.<ext>
baseFilenameExists_AnyNumbered(listing, baseFilename) ==
    \E file \in listing :
        \/ MatchesPrefix(PatternAtoms(EscapeRegExp(baseFilename)), file)
              /\ DotAndMore(file, Len(PatternAtoms(EscapeRegExp(baseFilename))) + 1)
        \/ LET n == Len(PatternAtoms(EscapeRegExp(baseFilename)))
               d == DigitRun(file, n + 1)
           IN /\ MatchesPrefix(PatternAtoms(EscapeRegExp(baseFilename)), file)
              /\ d >= 1
              /\ DotAndMore(file, n + d + 1)

baseFilenameExists(listing, baseFilename) ==
    \E file \in listing : BasePatternTest(baseFilename, file)

\* file.match(new RegExp(`^${escapedPrefix}(\\d+)\\.(.+)$`)): the digits of
\* group 1, or <<>> when the name does not match
NumberedPatternMatch(baseFilename, file) ==
    LET atoms == PatternAtoms(EscapeRegExp(baseFilename))
        n == Len(atoms)
        d == DigitRun(file, n + 1)
    IN IF MatchesPrefix(atoms, file) /\ d >= 1 /\ DotAndMore(file, n + d + 1)
       THEN SubSeq(file, n + 1, n + d)
       ELSE <<>>

usedNumbers(listing, baseFilename) ==
    {parseInt(NumberedPatternMatch(baseFilename, file)) :
        file \in {f \in listing : NumberedPatternMatch(baseFilename, f) # <<>>}}

\* a variant that takes the first candidate without looking at the used numbers
Probe_First(used, candidate) == candidate

RECURSIVE Probe(_, _)
\* while (usedNumbers.has(candidate)) candidate++
Probe(used, candidate) ==
    IF candidate \in used THEN Probe(used, candidate + 1) ELSE candidate

\* a variant that continues after the highest used number and fills no gap
findNextAvailableNumber_NoGapFill(listing, baseFilename) ==
    LET used == usedNumbers(listing, baseFilename)
    IN IF used = {} THEN 1
       ELSE (CHOOSE m \in used : \A k \in used : k <= m) + 1

findNextAvailableNumber(listing, baseFilename) ==
    LET used == usedNumbers(listing, baseFilename)
    IN IF used = {} THEN 1 ELSE Probe(used, 1)

\* createScratchpad, lines 271-282: the final filename
finalFilename(listing, baseFilename, ext) ==
    IF ~baseFilenameExists(listing, baseFilename)
    THEN baseFilename \o ext
    ELSE baseFilename \o NumberToString(findNextAvailableNumber(listing, baseFilename)) \o ext

(***************************************************************************)
(* createScratchpad as a task: the name is chosen, the clipboard is read   *)
(* when autoPaste is set (a suspension), the file is written and opened.   *)
(***************************************************************************)
MaxCreates == 1
MaxRemoves == 1
MaxInitFiles == 2

\* names a scratchpad root may hold
NameUniverse ==
    { <<"s", ".", "j", "s">>, <<"s", "1", ".", "t", "s">>, <<"s", "3", ".", "s", "q", "l">>,
      <<"s", "4", ".", "j", "s">>, <<"s", "2", ".", "m", "d">>, <<"s", "0", "1", ".", "j", "s">>,
      <<"s", "x", ".", "j", "s">>, <<"s", "1">>, <<"s", ".">>,
      <<"s", "1", ".", "1", ".", "j", "s">> }

\* the configured prefix or the name typed at the prompt
BaseNames == { <<"s">>, <<"s", "1">>, <<"s", ".">> }
\* filetype.ext
Extensions == { <<".", "j", "s">>, <<".", "t", "s">> }

\* no removeAllScratchpads call has run; promptForRemoval is not set
NoRemoval == [flag |-> "<undefined>", pc |-> "idle", calls |-> 0, prompts |-> 0,
              answer |-> "", always |-> FALSE]

NoCreate == [pc |-> "idle", base |-> <<>>, ext |-> <<>>, name |-> <<>>, listing |-> {}]

\* the listing of the example in the comment of findNextAvailableNumber
ExampleListing ==
    { <<"s", ".", "j", "s">>, <<"s", "1", ".", "t", "s">>, <<"s", "3", ".", "s", "q", "l">>,
      <<"s", "4", ".", "j", "s">> }

AllocInit ==
    /\ files \in {S \in SUBSET NameUniverse : Cardinality(S) <= MaxInitFiles}
                    \cup {ExampleListing}
    /\ autoPaste \in BOOLEAN
    /\ creator = NoCreate
    /\ second = NoCreate
    /\ created = 0
    /\ removed = 0
    /\ removal = NoRemoval

AllocIdle ==
    /\ files = {}
    /\ autoPaste = FALSE
    /\ creator = NoCreate
    /\ second = NoCreate
    /\ created = 0
    /\ removed = 0
    /\ removal = NoRemoval

\* fs.writeFileSync(filePath, data)
WriteFile(name) == files' = files \cup {name}

\* createScratchpad up to the first suspension of createAndOpenScratchpadFile:
\* the clipboard read when autoPaste is set, otherwise openFile after the write
CreateChoose(baseFilename, ext) ==
    /\ creator.pc = "idle"
    /\ created < MaxCreates
    /\ created' = created + 1
    /\ LET listing == getScratchpadFiles
           name == finalFilename(listing, baseFilename, ext)
       IN /\ creator' = [pc |-> IF autoPaste THEN "clipboard" ELSE "opening",
                         base |-> baseFilename, ext |-> ext, name |-> name,
                         listing |-> listing]
          /\ IF autoPaste THEN UNCHANGED files ELSE WriteFile(name)
    /\ UNCHANGED <<autoPaste, second, removed, removal>>

\* vscode.env.clipboard.readText() resolved: the file is written
CreateWrite ==
    /\ creator.pc = "clipboard"
    /\ WriteFile(creator.name)
    /\ creator' = [creator EXCEPT !.pc = "opening"]
    /\ UNCHANGED <<autoPaste, second, created, removed, removal>>

\* Utils.openFile resolved: createScratchpad returns
CreateOpened ==
    /\ creator.pc = "opening"
    /\ creator' = NoCreate
    /\ UNCHANGED <<files, autoPaste, second, created, removed, removal>>

\* a second createScratchpad call, started when the first has started: its
\* three steps are those of the first
SecondChoose(baseFilename, ext) ==
    /\ second.pc = "idle"
    /\ created >= 1
    /\ LET listing == getScratchpadFiles
           name == finalFilename(listing, baseFilename, ext)
       IN /\ second' = [pc |-> IF autoPaste THEN "clipboard" ELSE "opening",
                        base |-> baseFilename, ext |-> ext, name |-> name,
                        listing |-> listing]
          /\ IF autoPaste THEN UNCHANGED files ELSE WriteFile(name)
    /\ UNCHANGED <<autoPaste, creator, created, removed, removal>>

SecondWrite ==
    /\ second.pc = "clipboard"
    /\ WriteFile(second.name)
    /\ second' = [second EXCEPT !.pc = "opening"]
    /\ UNCHANGED <<autoPaste, creator, created, removed, removal>>

\* the second call returns; it is not started again
SecondOpened ==
    /\ second.pc = "opening"
    /\ second' = [second EXCEPT !.pc = "done"]
    /\ UNCHANGED <<files, autoPaste, creator, created, removed, removal>>

\* removeScratchpad: fs.unlinkSync of the picked file
RemoveScratchpad(name) ==
    /\ name \in files
    /\ removed < MaxRemoves
    /\ removed' = removed + 1
    /\ files' = files \ {name}
    /\ UNCHANGED <<autoPaste, creator, second, created, removal>>

(***************************************************************************)
(* AIFilenameService: the provider chain and its two backends.             *)
(* A backend call ends with a value (a stem or absent) or by throwing.     *)
(***************************************************************************)
Value(v) == [kind |-> "value", val |-> v]
Thrown == [kind |-> "throw", val |-> Absent]
NoOutcome == [kind |-> "none", val |-> Absent]

MaxFragments == 2
MaxChunks == 2

\* texts a model may produce
RawTexts ==
    { <<"F", "o", "o", " ", "B", "a", "r">>, <<"s", "1", ".", "j", "s">>,
      <<"!", "!">> }
\* pieces of a streamed local response
Fragments == { <<"F", "o">>, <<"o", " ", "b">>, <<"\n", "z">> }

\* response bodies, by what JSON.parse and choices?.[0]?.message?.content make of them
Bodies ==
    {[json |-> j, text |-> <<>>] : j \in {"malformed", "null", "no_choices", "empty_content"}}
    \cup {[json |-> "content", text |-> t] : t \in RawTexts}

\* a configuration value that is not set reads as undefined
Undefined == "<undefined>"
ProviderValues == {Undefined, "", "auto", "vscode", "openai", "other", "Auto"}
ApiKeys == {Undefined, "", "sk-key"}

NoCall == [pc |-> "idle", provider |-> "", sel |-> 0, output |-> <<>>,
           status |-> 0, data |-> <<>>,
           localRes |-> NoOutcome, remoteRes |-> NoOutcome, result |-> NoOutcome]
\* resolved: the selectors, by position in the list, for which
\* selectChatModels has returned a model
NoCounts == [chain |-> 0, local |-> 0, remote |-> 0, selects |-> 0, sends |-> 0, posts |-> 0,
             resolved |-> {}]

ChainInit ==
    /\ cfg \in [provider : ProviderValues, apiKey : ApiKeys]
    /\ lm \in BOOLEAN
    /\ ch = NoCall
    /\ counts = NoCounts
    /\ faults = {}

ChainIdle ==
    /\ cfg = [provider |-> Undefined, apiKey |-> Undefined]
    /\ lm = FALSE
    /\ ch = NoCall
    /\ counts = NoCounts
    /\ faults = {}

\* the selectors array of suggestWithVSCodeLM
SelectorCount == 3

\* the catch block of suggestWithVSCodeLM: a throw becomes absent
CatchVSCodeLM(outcome) == IF outcome.kind = "throw" THEN Value(Absent) ELSE outcome

CatchOpenAI_Missing(outcome) == outcome

\* the catch block of suggestWithOpenAI: a throw becomes absent
CatchOpenAI(outcome) == IF outcome.kind = "throw" THEN Value(Absent) ELSE outcome

\* a variant that falls back to auto only for a value that is not set
EffectiveProvider_OnlyUndefined(configured) ==
    IF configured = Undefined THEN "auto" ELSE configured

\* (Config.getExtensionConfiguration(CONFIG_RENAME_PROVIDER) as RenameProvider) || 'auto'
EffectiveProvider(configured) ==
    IF configured \in {Undefined, ""} THEN "auto" ELSE configured

TriesLocal_Always(provider) == TRUE

TriesLocal(provider) == provider = "vscode" \/ provider = "auto"
TriesRemote(provider) == provider = "openai" \/ provider = "auto"

\* suggestFilename up to its first await
ChainStart ==
    /\ ch.pc = "idle"
    /\ counts.chain = 0
    /\ LET provider == EffectiveProvider(cfg.provider)
       IN /\ ch' = [ch EXCEPT !.provider = provider,
                              !.pc = IF TriesLocal(provider) THEN "local_enter"
                                     ELSE IF TriesRemote(provider) THEN "remote_enter"
                                     ELSE "done",
                              !.result = IF TriesLocal(provider) \/ TriesRemote(provider)
                                         THEN NoOutcome ELSE Value(Absent)]
          /\ counts' = [counts EXCEPT !.chain = @ + 1]
    /\ UNCHANGED <<cfg, lm, faults>>

\* suggestWithVSCodeLM up to its first await: the capability check and the
\* first selectChatModels call
LocalEnter ==
    /\ ch.pc = "local_enter"
    /\ IF ~lm
       THEN /\ ch' = [ch EXCEPT !.pc = "local_return", !.localRes = CatchVSCodeLM(Value(Absent))]
            /\ counts' = [counts EXCEPT !.local = @ + 1]
            /\ faults' = faults \cup {"no_capability"}
       ELSE /\ ch' = [ch EXCEPT !.pc = "local_select", !.sel = 1]
            /\ counts' = [counts EXCEPT !.local = @ + 1, !.selects = @ + 1]
            /\ UNCHANGED faults
    /\ UNCHANGED <<cfg, lm>>

\* selectChatModels(selector) settles: a model, no model, or a rejection
LocalSelectSettled(answer) ==
    /\ ch.pc = "local_select"
    /\ CASE answer = "model" ->
              /\ ch' = [ch EXCEPT !.pc = "local_send"]
              /\ counts' = [counts EXCEPT !.sends = @ + 1, !.resolved = @ \cup {ch.sel}]
              /\ UNCHANGED faults
         [] answer = "none" /\ ch.sel < SelectorCount ->
              /\ ch' = [ch EXCEPT !.sel = @ + 1]
              /\ counts' = [counts EXCEPT !.selects = @ + 1]
              /\ UNCHANGED faults
         [] answer = "none" /\ ch.sel >= SelectorCount ->
              /\ ch' = [ch EXCEPT !.pc = "local_return", !.sel = 0,
                                  !.localRes = CatchVSCodeLM(Value(Absent))]
              /\ faults' = faults \cup {"no_model"}
              /\ UNCHANGED counts
         [] answer = "throw" ->
              /\ ch' = [ch EXCEPT !.pc = "local_return", !.sel = 0,
                                  !.localRes = CatchVSCodeLM(Thrown)]
              /\ faults' = faults \cup {"select_throw"}
              /\ UNCHANGED counts
    /\ UNCHANGED <<cfg, lm>>

\* model.sendRequest settles
LocalSendSettled(answer) ==
    /\ ch.pc = "local_send"
    /\ IF answer = "ok"
       THEN /\ ch' = [ch EXCEPT !.pc = "local_stream", !.output = <<>>]
            /\ UNCHANGED faults
       ELSE /\ ch' = [ch EXCEPT !.pc = "local_return", !.sel = 0,
                                !.localRes = CatchVSCodeLM(Thrown)]
            /\ faults' = faults \cup {"send_throw"}
    /\ UNCHANGED <<cfg, lm, counts>>

\* for await (const fragment of response.text) output += fragment
LocalFragment(fragment) ==
    /\ ch.pc = "local_stream"
    /\ Len(ch.output) < MaxFragments
    /\ ch' = [ch EXCEPT !.output = Append(@, fragment)]
    /\ UNCHANGED <<cfg, lm, counts, faults>>

RECURSIVE Concat(_)
Concat(parts) == IF parts = <<>> THEN <<>> ELSE Head(parts) \o Concat(Tail(parts))

\* the stream ends (the accumulated output is sanitized) or throws
LocalStreamSettled(answer) ==
    /\ ch.pc = "local_stream"
    /\ IF answer = "end"
       THEN /\ ch' = [ch EXCEPT !.pc = "local_return", !.sel = 0, !.output = <<>>,
                                !.localRes = CatchVSCodeLM(
                                    Value(sanitizeFilename(build, Concat(ch.output))))]
            /\ UNCHANGED faults
       ELSE /\ ch' = [ch EXCEPT !.pc = "local_return", !.sel = 0, !.output = <<>>,
                                !.localRes = CatchVSCodeLM(Thrown)]
            /\ faults' = faults \cup {"stream_throw"}
    /\ UNCHANGED <<cfg, lm, counts>>

\* what an async function does with the outcome of an awaited call that it
\* does not catch: a throw rejects the caller
Propagate(outcome) == outcome

AfterLocal_NoShortCircuit ==
    /\ ch.pc = "local_return"
    /\ IF TriesRemote(ch.provider)
       THEN ch' = [ch EXCEPT !.pc = "remote_enter"]
       ELSE ch' = [ch EXCEPT !.pc = "done", !.result = ch.localRes]
    /\ UNCHANGED <<cfg, lm, counts, faults>>

\* suggestFilename resumes with the local suggestion
AfterLocal ==
    /\ ch.pc = "local_return"
    /\ IF ch.localRes.kind = "throw"
       THEN ch' = [ch EXCEPT !.pc = "done", !.result = Propagate(ch.localRes)]
       ELSE IF ch.localRes.val.ok
       THEN ch' = [ch EXCEPT !.pc = "done", !.result = ch.localRes]
       ELSE IF TriesRemote(ch.provider)
       THEN ch' = [ch EXCEPT !.pc = "remote_enter"]
       ELSE ch' = [ch EXCEPT !.pc = "done", !.result = Value(Absent)]
    /\ UNCHANGED <<cfg, lm, counts, faults>>

ApiKeyMissing_OnlyUndefined(key) == key = Undefined

\* (Config.getExtensionConfiguration(CONFIG_OPENAI_API_KEY) as string) || ''; !apiKey
ApiKeyMissing(key) == (IF key = Undefined THEN "" ELSE key) = ""

\* suggestWithOpenAI up to its first await: the key check and the request
RemoteEnter ==
    /\ ch.pc = "remote_enter"
    /\ IF ApiKeyMissing(cfg.apiKey)
       THEN /\ ch' = [ch EXCEPT !.pc = "remote_return", !.remoteRes = Value(Absent)]
            /\ counts' = [counts EXCEPT !.remote = @ + 1]
       ELSE /\ ch' = [ch EXCEPT !.pc = "post_pending", !.data = <<>>, !.status = 0]
            /\ counts' = [counts EXCEPT !.remote = @ + 1, !.posts = @ + 1]
    /\ UNCHANGED <<cfg, lm, faults>>

StatusCodes == {199, 200, 299, 300}

\* the response callback of https.request
ResponseOpened(status) ==
    /\ ch.pc = "post_pending"
    /\ ch' = [ch EXCEPT !.pc = "post_streaming", !.status = status]
    /\ UNCHANGED <<cfg, lm, counts, faults>>

\* res.on('data'): data += chunk
ResponseData(chunk) ==
    /\ ch.pc = "post_streaming"
    /\ Len(ch.data) < MaxChunks
    /\ ch' = [ch EXCEPT !.data = Append(@, chunk)]
    /\ UNCHANGED <<cfg, lm, counts, faults>>

\* res.statusCode && res.statusCode >= 200 && res.statusCode < 300
IsSuccessStatus(status) == status # 0 /\ status >= 200 /\ status < 300

\* JSON.parse of the accumulated data: one whole document parses, an empty
\* text or two documents in a row do not
ParsedBody(data) ==
    IF Len(data) = 1 THEN data[1] ELSE [json |-> "malformed", text |-> <<>>]

\* suggestWithOpenAI after postJSON resolved, inside its try block
ReadResponse(b, data) ==
    LET body == ParsedBody(data)
    IN CASE body.json \in {"malformed", "null"} -> Thrown
         [] body.json \in {"no_choices", "empty_content"} -> Value(Absent)
         [] OTHER -> Value(sanitizeFilename(b, body.text))

ResponseFault(data) ==
    LET body == ParsedBody(data)
    IN CASE body.json \in {"malformed", "null"} -> {"malformed_json"}
         [] body.json \in {"no_choices", "empty_content"} -> {"missing_content"}
         [] OTHER -> {}

\* res.on('end'): postJSON resolves on 2xx and rejects otherwise
ResponseEnd ==
    /\ ch.pc = "post_streaming"
    /\ IF IsSuccessStatus(ch.status)
       THEN /\ ch' = [ch EXCEPT !.pc = "remote_return", !.status = 0, !.data = <<>>,
                                !.remoteRes = CatchOpenAI(ReadResponse(build, ch.data))]
            /\ faults' = faults \cup ResponseFault(ch.data)
       ELSE /\ ch' = [ch EXCEPT !.pc = "remote_return", !.status = 0, !.data = <<>>,
                                !.remoteRes = CatchOpenAI(Thrown)]
            /\ faults' = faults \cup {"non2xx"}
    /\ UNCHANGED <<cfg, lm, counts>>

\* a variant that sends the request once more after a first network error
RequestError_Retry ==
    /\ ch.pc = "post_pending"
    /\ IF counts.posts < 2
       THEN /\ counts' = [counts EXCEPT !.posts = @ + 1]
            /\ UNCHANGED ch
       ELSE ch' = [ch EXCEPT !.pc = "remote_return", !.remoteRes = CatchOpenAI(Thrown)]
                 /\ UNCHANGED counts
    /\ faults' = faults \cup {"network_error"}
    /\ UNCHANGED <<cfg, lm>>

\* req.on('error'): postJSON rejects
RequestError ==
    /\ ch.pc = "post_pending"
    /\ ch' = [ch EXCEPT !.pc = "remote_return", !.remoteRes = CatchOpenAI(Thrown)]
    /\ faults' = faults \cup {"network_error"}
    /\ UNCHANGED <<cfg, lm, counts>>

\* req.setTimeout(timeoutMs, ...) of src/ai-filename.ts: the idle socket is
\* destroyed with an error, which req.on('error') turns into a rejection.
\* The text in part_000 sets no timeout.
RequestTimeout ==
    /\ build = "ai-filename.ts"
    /\ ch.pc \in {"post_pending", "post_streaming"}
    /\ ch' = [ch EXCEPT !.pc = "remote_return", !.status = 0, !.data = <<>>,
                        !.remoteRes = CatchOpenAI(Thrown)]
    /\ faults' = faults \cup {"timeout"}
    /\ UNCHANGED <<cfg, lm, counts>>

\* suggestFilename returns the remote suggestion
AfterRemote ==
    /\ ch.pc = "remote_return"
    /\ ch' = [ch EXCEPT !.pc = "done", !.result = Propagate(ch.remoteRes)]
    /\ UNCHANGED <<cfg, lm, counts, faults>>

(***************************************************************************)
(* Paths: a path is the sequence of its segments, the last one the file    *)
(* name; a segment is a sequence of characters.                            *)
(***************************************************************************)
\* path.dirname
dirname(p) == SubSeq(p, 1, Len(p) - 1)
\* path.basename(p)
basename(p) == p[Len(p)]

\* path.extname: from the last dot of the name, unless the name has no dot or
\* only a leading one
extname(name) ==
    LET dots == {i \in 1..Len(name) : name[i] = "."}
        last == CHOOSE i \in dots : \A j \in dots : j <= i
    IN IF dots = {} \/ last = 1 THEN <<>> ELSE SubSeq(name, last, Len(name))

\* path.basename(name, ext)
basenameWithoutExt(name, ext) ==
    IF ext # <<>> /\ Len(name) > Len(ext)
       /\ SubSeq(name, Len(name) - Len(ext) + 1, Len(name)) = ext
    THEN SubSeq(name, 1, Len(name) - Len(ext))
    ELSE name

\* ScratchpadsManager.normalizePath: the resolved path, lowercased on win32
normalizePath(plat, p) ==
    IF plat = "win32" THEN [i \in 1..Len(p) |-> toLowerCase(p[i])] ELSE p

\* path.relative(root, candidate) starts with '..': the candidate is not below
\* the root, or the first segment below the root itself starts with two dots
RelativeStartsWithDotDot(candidate, root) ==
    IF Len(candidate) > Len(root) /\ SubSeq(candidate, 1, Len(root)) = root
    THEN LET first == candidate[Len(root) + 1]
         IN Len(first) >= 2 /\ first[1] = "." /\ first[2] = "."
    ELSE TRUE

\* ScratchpadsManager.isPathInsideRoot
isPathInsideRoot(candidate, root) ==
    IF candidate = <<>> \/ root = <<>> THEN FALSE
    ELSE IF candidate = root THEN TRUE
    ELSE ~RelativeStartsWithDotDot(candidate, root)

\* Config.projectScratchpadsPath
projectScratchpadsPath == << <<"w">>, <<"p">> >>

\* Utils.getScratchpadFilePath(name): the name resolved in the scratchpad root
getScratchpadFilePath(name) == Append(projectScratchpadsPath, name)

\* ScratchpadsManager.isScratchpadDocument
isScratchpadDocument(plat, fileName) ==
    LET normalizedEditorPath == normalizePath(plat, dirname(fileName))
        normalizedProjectPath == normalizePath(plat, projectScratchpadsPath)
    IN \/ normalizedEditorPath = normalizedProjectPath
       \/ isPathInsideRoot(normalizedEditorPath, normalizedProjectPath)

\* DEFAULT_FILE_PREFIX
DefaultFilePrefix == <<"s", "c", "r", "a", "t", "c", "h">>

\* (Config.getExtensionConfiguration(CONFIG_FILE_PREFIX) as string) || DEFAULT_FILE_PREFIX
configuredPrefix(c) == IF c.filePrefix = <<>> THEN DefaultFilePrefix ELSE c.filePrefix

\* the default of autoRenameMinChars in autoRenameScratchpadFromDocument
DefaultMinChars == 20

\* (Config.getExtensionConfiguration(CONFIG_AUTO_RENAME_MIN_CHARS) as number) || 20:
\* a value that is not set reads as undefined; undefined and 0 are falsy
minChars(c) ==
    IF ~c.minChars.set \/ c.minChars.n = 0 THEN DefaultMinChars ELSE c.minChars.n

SizeGate_Skipped(len, c) == FALSE

\* lines 436-439: if (content.length < minChars) return
SizeGate(len, c) == len < minChars(c)

\* a variant that builds the pattern from the prefix as it is
scratchNamePatternTest_Unescaped(prefix, baseName) ==
    /\ MatchesPrefix(PatternAtoms(prefix), baseName)
    /\ \A i \in (Len(PatternAtoms(prefix)) + 1)..Len(baseName) : baseName[i] \in Digits

\* new RegExp(`^${escapedPrefix}\\d*$`).test(currentBaseName)
scratchNamePatternTest(prefix, baseName) ==
    LET atoms == PatternAtoms(EscapeRegExp(prefix))
    IN /\ MatchesPrefix(atoms, baseName)
       /\ \A i \in (Len(atoms) + 1)..Len(baseName) : baseName[i] \in Digits

\* AIFilenameService.buildFinalFilename
buildFinalFilename(baseName, currentFilePath) == baseName \o extname(basename(currentFilePath))

\* the file system compares names without regard to case on win32
FsKey(plat, p) == IF plat = "win32" THEN [i \in 1..Len(p) |-> toLowerCase(p[i])] ELSE p

\* the entry of the disk a path names, if any
Entries(plat, d, p) == {q \in DOMAIN d : FsKey(plat, q) = FsKey(plat, p)}

\* fs.existsSync
existsSync(plat, d, p) == Entries(plat, d, p) # {}

CollisionGate_Skipped(plat, d, newFilePath) == FALSE

\* lines 505-510: if (fs.existsSync(newFilePath)) return
CollisionGate(plat, d, newFilePath) == existsSync(plat, d, newFilePath)

\* Utils.findOpenEditor(path): an editor whose document has this file name
findOpenEditor(open, p) == p \in open

DirtyGuard_Skipped(open, unsaved, p) == FALSE

\* lines 513-521: if (openEditor?.document.isDirty) return
DirtyGuard(open, unsaved, p) == findOpenEditor(open, p) /\ p \in unsaved

(***************************************************************************)
(* autoRenameScratchpadFromDocument as tasks.  A task runs from one await  *)
(* to the next in one step: suggestFilename, renameFile, closeAllTabsFor-   *)
(* File and openFile are the awaits.                                        *)
(***************************************************************************)
Attempts == {"A", "B"}
MaxUserSteps == 1

Root == projectScratchpadsPath
Nested == Append(Root, <<"n">>)
Outside == << <<"w">>, <<"o">> >>

\* the files at the start: scratchpads named after the prefix "S" and after
\* the default prefix, a file with a content name, one in a directory below
\* the root and one outside it
InitialDisk ==
    LET f1 == Append(Root, <<"S", ".", "j", "s">>)
        f2 == Append(Root, <<"S", "1", ".", "j", "s">>)
        f3 == Append(Root, <<"g", ".", "j", "s">>)
        f4 == Append(Nested, <<"S", "2", ".", "j", "s">>)
        f5 == Append(Outside, <<"S", ".", "j", "s">>)
        f6 == Append(Root, <<"s", "c", "r", "a", "t", "c", "h", ".", "j", "s">>)
    IN (f1 :> 1) @@ (f2 :> 2) @@ (f3 :> 3) @@ (f4 :> 4) @@ (f5 :> 5) @@ (f6 :> 6)

\* the stems suggestFilename may return
Stems == { <<"f">>, <<"g">>, <<"s">>, DefaultFilePrefix, DefaultFilePrefix \o <<"1">> }
Suggestions == {Absent} \cup {Present(st) : st \in Stems}
\* trimmed lengths of a document's text
TextLengths == {4, 20}
PrefixValues == { <<>>, <<"S">> }
\* autoRenameMinChars: not set, or set to a number
NotSet == [set |-> FALSE, n |-> 0]
SetTo(n) == [set |-> TRUE, n |-> n]
MinCharsValues == {NotSet, SetTo(0), SetTo(5)}

\* landed: the rename the call asked for has taken effect
NoAttempt == [pc |-> "idle", doc |-> <<>>, len |-> 0, suggestion |-> Absent,
              dest |-> <<>>, hadEditor |-> FALSE, renames |-> 0, chainCalls |-> 0,
              skip |-> "", landed |-> FALSE]

RenameInit ==
    /\ platform \in {"posix", "win32"}
    /\ conf \in [filePrefix : PrefixValues, minChars : {NotSet, SetTo(5)}]
    /\ disk = InitialDisk
    /\ tabs \in {{}, {Append(Root, <<"S", ".", "j", "s">>)},
                 {Append(Root, <<"S", ".", "j", "s">>), Append(Root, <<"S", "1", ".", "j", "s">>)}}
    /\ dirty = {}
    /\ atts = [a \in Attempts |-> NoAttempt]
    /\ clobbered = {}
    /\ userSteps = 0

RenameIdle ==
    /\ platform = "posix"
    /\ conf = [filePrefix |-> <<>>, minChars |-> NotSet]
    /\ disk = <<>>
    /\ tabs = {}
    /\ dirty = {}
    /\ atts = [a \in Attempts |-> NoAttempt]
    /\ clobbered = {}
    /\ userSteps = 0

\* the call returns; its locals dest and openEditor are gone
Stop(a, why) == [a EXCEPT !.pc = "done", !.skip = why, !.dest = <<>>, !.hadEditor = FALSE]

\* lines 413-470: the three gates, up to the await of suggestFilename.
\* The calls are named in the order they start.
Trigger(id, fileName, len) ==
    /\ atts[id].pc = "idle"
    /\ id = "B" => atts["A"].pc # "idle"
    /\ fileName \in DOMAIN disk \cup tabs
    /\ LET a == [atts[id] EXCEPT !.doc = fileName, !.len = len]
           currentBaseName ==
               basenameWithoutExt(basename(fileName), extname(basename(fileName)))
       IN atts' = [atts EXCEPT ![id] =
              IF ~isScratchpadDocument(platform, fileName) THEN Stop(a, "not_scratchpad")
              ELSE IF SizeGate(len, conf) THEN Stop(a, "short")
              ELSE IF ~scratchNamePatternTest(configuredPrefix(conf), currentBaseName)
                   THEN Stop(a, "name")
              ELSE [a EXCEPT !.pc = "suggest", !.chainCalls = @ + 1]]
    /\ UNCHANGED <<platform, conf, disk, tabs, dirty, clobbered, userSteps>>

\* a variant that puts the new name beside the document
newFilePathOf_BesideDocument(finalFileName, currentFilePath) ==
    Append(dirname(currentFilePath), finalFileName)
\* line 488: newFilePath = Utils.getScratchpadFilePath(finalFileName), whatever
\* directory the document is in
newFilePathOf(finalFileName, currentFilePath) == getScratchpadFilePath(finalFileName)

\* lines 479-527: suggestFilename has resolved; the no-op checks, the collision
\* gate, the dirty-buffer guard and the call of Utils.renameFile
SuggestReturn(id, suggestion) ==
    /\ atts[id].pc = "suggest"
    /\ LET a == [atts[id] EXCEPT !.suggestion = suggestion]
           currentFilePath == a.doc
           currentBaseName ==
               basenameWithoutExt(basename(currentFilePath), extname(basename(currentFilePath)))
           finalFileName == buildFinalFilename(suggestion.stem, currentFilePath)
           newFilePath == newFilePathOf(finalFileName, currentFilePath)
           openEditor == findOpenEditor(tabs, currentFilePath)
       IN atts' = [atts EXCEPT ![id] =
              IF ~suggestion.ok THEN Stop(a, "absent")
              ELSE IF suggestion.stem = currentBaseName THEN Stop(a, "unchanged")
              ELSE IF normalizePath(platform, newFilePath) = normalizePath(platform, currentFilePath)
                   THEN Stop(a, "same_path")
              ELSE IF CollisionGate(platform, disk, newFilePath) THEN Stop(a, "exists")
              ELSE IF DirtyGuard(tabs, dirty, currentFilePath) THEN Stop(a, "dirty")
              ELSE [a EXCEPT !.pc = "renaming", !.dest = newFilePath,
                             !.hadEditor = openEditor, !.renames = @ + 1]]
    /\ UNCHANGED <<platform, conf, disk, tabs, dirty, clobbered, userSteps>>

\* a variant that never refreshes the tabs
RefreshesTabs_Never(openEditor) == FALSE
\* line 529: if (openEditor), the tabs are refreshed after the rename
RefreshesTabs(openEditor) == openEditor

\* Utils.renameFile(oldPath, newPath) takes effect: the file moves, replacing
\* whatever the new path named; it throws when the old path names no file or
\* the file system refuses
RenameSettled(id, refused) ==
    /\ atts[id].pc = "renaming"
    /\ LET a == atts[id]
           from == Entries(platform, disk, a.doc)
           onto == Entries(platform, disk, a.dest)
       IN IF from = {} \/ refused
          THEN /\ atts' = [atts EXCEPT ![id] = Stop(a, "commit_failed")]
               /\ UNCHANGED <<disk, clobbered>>
          ELSE LET src == CHOOSE q \in from : TRUE
               IN /\ disk' = [q \in ((DOMAIN disk \ from) \ onto) \cup {a.dest} |->
                                 IF q = a.dest THEN disk[src] ELSE disk[q]]
                  /\ clobbered' = clobbered \cup {disk[q] : q \in onto \ from}
                  /\ atts' = [atts EXCEPT ![id] =
                        IF RefreshesTabs(a.hadEditor)
                        THEN [a EXCEPT !.pc = "closing", !.landed = TRUE]
                        ELSE [Stop(a, "renamed") EXCEPT !.landed = TRUE]]
    /\ UNCHANGED <<platform, conf, tabs, dirty, userSteps>>

\* Utils.closeAllTabsForFile(currentFilePath) resolves or throws
CloseTabsSettled(id, throws) ==
    /\ atts[id].pc = "closing"
    /\ IF throws
       THEN /\ atts' = [atts EXCEPT ![id] = Stop(atts[id], "commit_failed")]
            /\ UNCHANGED <<tabs, dirty>>
       ELSE /\ atts' = [atts EXCEPT ![id].pc = "opening"]
            /\ tabs' = tabs \ {atts[id].doc}
            /\ dirty' = dirty \ {atts[id].doc}
    /\ UNCHANGED <<platform, conf, disk, clobbered, userSteps>>

\* Utils.openFile(newFilePath) resolves or throws
OpenSettled(id, throws) ==
    /\ atts[id].pc = "opening"
    /\ IF throws
       THEN /\ atts' = [atts EXCEPT ![id] = Stop(atts[id], "commit_failed")]
            /\ UNCHANGED tabs
       ELSE /\ atts' = [atts EXCEPT ![id] = Stop(atts[id], "renamed")]
            /\ tabs' = tabs \cup {atts[id].dest}
    /\ UNCHANGED <<platform, conf, disk, dirty, clobbered, userSteps>>

\* the user types in an open document
EditDocument(p) ==
    /\ p \in tabs
    /\ p \notin dirty
    /\ userSteps < MaxUserSteps
    /\ userSteps' = userSteps + 1
    /\ dirty' = dirty \cup {p}
    /\ UNCHANGED <<platform, conf, disk, tabs, atts, clobbered>>

\* the user saves an open document: its text is written to its path
SaveDocument(p) ==
    /\ p \in dirty
    /\ dirty' = dirty \ {p}
    /\ disk' = IF existsSync(platform, disk, p) THEN disk ELSE (p :> 0) @@ disk
    /\ UNCHANGED <<platform, conf, tabs, atts, clobbered, userSteps>>

(***************************************************************************)
(* removeAllScratchpads: confirmRemoval, closeTabs, deleteScratchpadFiles  *)
(***************************************************************************)
MaxRemoveAlls == 2

\* the values of the promptForRemoval setting
PromptFlags == {Undefined, "true", "false"}
\* what window.showWarningMessage resolves to; dismissing gives undefined
Answers == {"Yes", "Always", Undefined}

\* a variant that asks whatever the setting says
NeedsPrompt_Always(flag) == TRUE
\* isPromptForRemoval === undefined || isPromptForRemoval
NeedsPrompt(flag) == flag = Undefined \/ flag = "true"

\* the tabs on the paths of the files in the scratchpad root
ScratchpadTabs == tabs \cap {getScratchpadFilePath(f) : f \in getScratchpadFiles}

\* Config.setExtensionConfiguration(CONFIG_PROMPT_FOR_REMOVAL, false)
SetPromptForRemoval(r, value) == [r EXCEPT !.flag = value]

\* removeAllScratchpads up to its first await: confirmRemoval shows the modal
\* question, or returns true at once and closeTabs starts
RemoveAllStart ==
    /\ removal.pc = "idle"
    /\ removal.calls < MaxRemoveAlls
    /\ removal' = IF NeedsPrompt(removal.flag)
                  THEN [removal EXCEPT !.pc = "prompt", !.calls = @ + 1, !.prompts = @ + 1]
                  ELSE [removal EXCEPT !.pc = "closing", !.calls = @ + 1]
    /\ UNCHANGED <<files, autoPaste, creator, second, created, removed, tabs>>

\* the user answers the question or dismisses it
PromptAnswered(answer) ==
    /\ removal.pc = "prompt"
    /\ removal' =
          IF answer = Undefined THEN [removal EXCEPT !.pc = "idle", !.answer = answer]
          ELSE IF answer = "Always"
               THEN [SetPromptForRemoval(removal, "false")
                        EXCEPT !.pc = "closing", !.answer = answer, !.always = TRUE]
          ELSE [removal EXCEPT !.pc = "closing", !.answer = answer]
    /\ UNCHANGED <<files, autoPaste, creator, second, created, removed, tabs>>

\* closeTabs has closed every tab on a path of the listing
TabsClosed ==
    /\ removal.pc = "closing"
    /\ tabs' = tabs \ ScratchpadTabs
    /\ removal' = [removal EXCEPT !.pc = "deleting"]
    /\ UNCHANGED <<files, autoPaste, creator, second, created, removed>>

\* deleteScratchpadFiles: fs.unlinkSync of every file of the listing
DeleteFiles ==
    /\ removal.pc = "deleting"
    /\ files' = {}
    /\ removal' = [removal EXCEPT !.pc = "idle"]
    /\ UNCHANGED <<autoPaste, creator, second, created, removed, tabs>>

\* tabs at the start: on two scratchpads, and on a file outside the root
RemoveAllTabs ==
    { getScratchpadFilePath(<<"s", ".", "j", "s">>),
      getScratchpadFilePath(<<"s", "1", ".", "t", "s">>),
      Append(Outside, <<"S", ".", "j", "s">>) }

RemoveAllInit ==
    /\ files \in SUBSET {<<"s", ".", "j", "s">>, <<"s", "1", ".", "t", "s">>, <<"s", "x", ".", "j", "s">>}
    /\ autoPaste \in BOOLEAN
    /\ creator = NoCreate
    /\ second = NoCreate
    /\ created = 0
    /\ removed = 0
    /\ removal \in {[NoRemoval EXCEPT !.flag = f] : f \in PromptFlags}
    /\ platform = "posix"
    /\ conf = [filePrefix |-> <<>>, minChars |-> NotSet]
    /\ disk = <<>>
    /\ tabs \in SUBSET RemoveAllTabs
    /\ dirty = {}
    /\ atts = [a \in Attempts |-> NoAttempt]
    /\ clobbered = {}
    /\ userSteps = 0

(***************************************************************************)
(* One call of autoRenameScratchpadFromDocument on its own, over more       *)
(* documents, settings and model texts                                      *)
(***************************************************************************)
\* directories: two levels below the root, a directory below the root whose
\* name starts with two dots, and the root spelled in upper case
Deep == Append(Nested, <<"m">>)
DotDotDir == Append(Root, <<".", ".", "x">>)
UpperRoot == << <<"W">>, <<"P">> >>

GateDisk ==
    (Append(Root, <<"S", ".", "j", "s">>) :> 1) @@
    (Append(Root, <<"S", "1", ".", "j", "s">>) :> 2) @@
    (Append(Root, <<"S", ".", "1", ".", "j", "s">>) :> 3) @@
    (Append(Root, <<"S", "x", "1", ".", "j", "s">>) :> 4) @@
    (Append(Root, <<"s", "c", "r", "a", "t", "c", "h", "3", ".", "j", "s">>) :> 5) @@
    (Append(Root, <<"s", "c", "r", "a", "t", "c", "h", "y", ".", "j", "s">>) :> 6) @@
    (Append(Root, <<"g", ".", "j", "s">>) :> 7) @@
    (Append(Root, <<"S", "7">>) :> 8) @@
    (Append(Nested, <<"S", "2", ".", "j", "s">>) :> 9) @@
    (Append(Deep, <<"S", ".", "j", "s">>) :> 10) @@
    (Append(DotDotDir, <<"S", ".", "j", "s">>) :> 11) @@
    (Append(Outside, <<"S", ".", "j", "s">>) :> 12) @@
    (Append(UpperRoot, <<"S", "9", ".", "j", "s">>) :> 13)

\* filePrefix: not set, a plain prefix, a prefix with a regular-expression
\* metacharacter
GatePrefixes == { <<>>, <<"S">>, <<"S", ".">> }
\* content.length of document.getText().trim()
GateLengths == {0, 4, 5, 19, 20}

\* the text of the example: 'Reverse-String Helper!! .js'
ExampleRaw == <<"R", "e", "v", "e", "r", "s", "e", "-", "S", "t", "r", "i", "n", "g", " ", "H", "e", "l", "p", "e", "r", "!", "!", " ", ".", "j", "s">>
\* a text whose cleaned form has a hyphen at the position of the cut
LongRaw == Fill(MaxStemLen - 1) \o <<"-", "a">>
\* texts a backend may receive from its model
GateRawTexts ==
    { ExampleRaw,
      LongRaw,
      <<"S">>,
      <<"g", ".", "j", "s">>,
      <<"!", "!">>,
      <<"s", "c", "r", "a", "t", "c", "h", "3">>,
      <<"a", ".", "t", "a", "r", ".", "g", "z">> }

\* the second call never starts
NeverStarted == [NoAttempt EXCEPT !.pc = "done"]

GateInit ==
    /\ platform \in {"posix", "win32"}
    /\ conf \in [filePrefix : GatePrefixes, minChars : MinCharsValues]
    /\ disk = GateDisk
    /\ tabs \in {{}, {Append(Root, <<"S", "1", ".", "j", "s">>)}}
    /\ dirty = {}
    /\ atts = [a \in Attempts |-> IF a = "A" THEN NoAttempt ELSE NeverStarted]
    /\ clobbered = {}
    /\ userSteps = 0

(***************************************************************************)
(* Specifications                                                          *)
(***************************************************************************)
InitSanitize == build \in Builds /\ SanInit /\ AllocIdle /\ ChainIdle /\ RenameIdle
NextSanitize ==
    \/ Sanitize /\ UNCHANGED <<allocVars, chainVars, renameVars>>
    \/ Resanitize /\ UNCHANGED <<allocVars, chainVars, renameVars>>
SpecSanitize == InitSanitize /\ [][NextSanitize]_vars

InitAlloc == build \in Builds /\ SanIdle /\ AllocInit /\ ChainIdle /\ RenameIdle
NextAlloc ==
    \/ \E b \in BaseNames, e \in Extensions : CreateChoose(b, e) /\ UNCHANGED <<build, sanVars, chainVars, renameVars>>
    \/ CreateWrite /\ UNCHANGED <<build, sanVars, chainVars, renameVars>>
    \/ CreateOpened /\ UNCHANGED <<build, sanVars, chainVars, renameVars>>
    \/ \E n \in files : RemoveScratchpad(n) /\ UNCHANGED <<build, sanVars, chainVars, renameVars>>
SpecAlloc == InitAlloc /\ [][NextAlloc]_vars

\* two createScratchpad calls, the second started while the first runs or
\* after it
NextCreates ==
    \/ \E b \in BaseNames, e \in Extensions : CreateChoose(b, e) /\ UNCHANGED <<build, sanVars, chainVars, renameVars>>
    \/ CreateWrite /\ UNCHANGED <<build, sanVars, chainVars, renameVars>>
    \/ CreateOpened /\ UNCHANGED <<build, sanVars, chainVars, renameVars>>
    \/ \E b \in BaseNames, e \in Extensions : SecondChoose(b, e) /\ UNCHANGED <<build, sanVars, chainVars, renameVars>>
    \/ SecondWrite /\ UNCHANGED <<build, sanVars, chainVars, renameVars>>
    \/ SecondOpened /\ UNCHANGED <<build, sanVars, chainVars, renameVars>>
SpecCreates == InitAlloc /\ [][NextCreates]_vars

InitChain == build \in Builds /\ SanIdle /\ AllocIdle /\ ChainInit /\ RenameIdle
NextChain ==
    \/ ChainStart /\ UNCHANGED <<build, sanVars, allocVars, renameVars>>
    \/ LocalEnter /\ UNCHANGED <<build, sanVars, allocVars, renameVars>>
    \/ \E a \in {"model", "none", "throw"} :
          LocalSelectSettled(a) /\ UNCHANGED <<build, sanVars, allocVars, renameVars>>
    \/ \E a \in {"ok", "throw"} : LocalSendSettled(a) /\ UNCHANGED <<build, sanVars, allocVars, renameVars>>
    \/ \E f \in Fragments : LocalFragment(f) /\ UNCHANGED <<build, sanVars, allocVars, renameVars>>
    \/ \E a \in {"end", "throw"} : LocalStreamSettled(a) /\ UNCHANGED <<build, sanVars, allocVars, renameVars>>
    \/ AfterLocal /\ UNCHANGED <<build, sanVars, allocVars, renameVars>>
    \/ RemoteEnter /\ UNCHANGED <<build, sanVars, allocVars, renameVars>>
    \/ \E st \in StatusCodes : ResponseOpened(st) /\ UNCHANGED <<build, sanVars, allocVars, renameVars>>
    \/ \E c \in Bodies : ResponseData(c) /\ UNCHANGED <<build, sanVars, allocVars, renameVars>>
    \/ ResponseEnd /\ UNCHANGED <<build, sanVars, allocVars, renameVars>>
    \/ RequestError /\ UNCHANGED <<build, sanVars, allocVars, renameVars>>
    \/ RequestTimeout /\ UNCHANGED <<build, sanVars, allocVars, renameVars>>
    \/ AfterRemote /\ UNCHANGED <<build, sanVars, allocVars, renameVars>>
SpecChain == InitChain /\ [][NextChain]_vars

\* the steps that need nothing from outside: a task whose awaited call has
\* settled resumes, and a timer that was set on the request fires while the
\* socket stays idle.  What the model service and the server do is not fair.
ChainProgramSteps ==
    (ChainStart \/ LocalEnter \/ AfterLocal \/ RemoteEnter \/ AfterRemote \/ RequestTimeout)
        /\ UNCHANGED <<build, sanVars, allocVars, renameVars>>
SpecChainFair == InitChain /\ [][NextChain]_vars /\ WF_vars(ChainProgramSteps)

Init == build = "ai-filename.ts" /\ SanIdle /\ AllocIdle /\ ChainIdle /\ RenameInit
Next ==
    \/ \E id \in Attempts, p \in DOMAIN disk \cup tabs, n \in TextLengths :
          Trigger(id, p, n) /\ UNCHANGED <<build, sanVars, allocVars, chainVars>>
    \/ \E id \in Attempts, sg \in Suggestions :
          SuggestReturn(id, sg) /\ UNCHANGED <<build, sanVars, allocVars, chainVars>>
    \/ \E id \in Attempts, r \in BOOLEAN :
          RenameSettled(id, r) /\ UNCHANGED <<build, sanVars, allocVars, chainVars>>
    \/ \E id \in Attempts, t \in BOOLEAN :
          CloseTabsSettled(id, t) /\ UNCHANGED <<build, sanVars, allocVars, chainVars>>
    \/ \E id \in Attempts, t \in BOOLEAN :
          OpenSettled(id, t) /\ UNCHANGED <<build, sanVars, allocVars, chainVars>>
    \/ \E p \in tabs : EditDocument(p) /\ UNCHANGED <<build, sanVars, allocVars, chainVars>>
    \/ \E p \in dirty : SaveDocument(p) /\ UNCHANGED <<build, sanVars, allocVars, chainVars>>
Spec == Init /\ [][Next]_vars

InitGates == build \in Builds /\ SanIdle /\ AllocIdle /\ ChainIdle /\ GateInit
NextGates ==
    \/ \E p \in DOMAIN disk \cup tabs, n \in GateLengths :
          Trigger("A", p, n) /\ UNCHANGED <<build, sanVars, allocVars, chainVars>>
    \/ \E r \in GateRawTexts :
          SuggestReturn("A", sanitizeFilename(build, r)) /\ UNCHANGED <<build, sanVars, allocVars, chainVars>>
    \/ \E r \in BOOLEAN : RenameSettled("A", r) /\ UNCHANGED <<build, sanVars, allocVars, chainVars>>
    \/ \E t \in BOOLEAN : CloseTabsSettled("A", t) /\ UNCHANGED <<build, sanVars, allocVars, chainVars>>
    \/ \E t \in BOOLEAN : OpenSettled("A", t) /\ UNCHANGED <<build, sanVars, allocVars, chainVars>>
    \/ \E p \in tabs : EditDocument(p) /\ UNCHANGED <<build, sanVars, allocVars, chainVars>>
    \/ \E p \in dirty : SaveDocument(p) /\ UNCHANGED <<build, sanVars, allocVars, chainVars>>
SpecGates == InitGates /\ [][NextGates]_vars

\* remove-all calls one after another, with scratchpads created in between
RemoveAllRest == <<build, sanVars, chainVars, platform, conf, disk, dirty, atts, clobbered, userSteps>>
InitRemoveAll == build \in Builds /\ SanIdle /\ ChainIdle /\ RemoveAllInit
NextRemoveAll ==
    \/ RemoveAllStart /\ UNCHANGED RemoveAllRest
    \/ \E a \in Answers : PromptAnswered(a) /\ UNCHANGED RemoveAllRest
    \/ TabsClosed /\ UNCHANGED RemoveAllRest
    \/ DeleteFiles /\ UNCHANGED RemoveAllRest
    \/ \E b \in BaseNames, e \in Extensions : CreateChoose(b, e) /\ UNCHANGED <<RemoveAllRest, tabs>>
    \/ CreateWrite /\ UNCHANGED <<RemoveAllRest, tabs>>
    \/ CreateOpened /\ UNCHANGED <<RemoveAllRest, tabs>>
SpecRemoveAll == InitRemoveAll /\ [][NextRemoveAll]_vars

(***************************************************************************)
(* Properties of sanitizeFilename                                          *)
(***************************************************************************)
\* ^[a-z0-9]+(-[a-z0-9]+)*$
IsStem(s) ==
    /\ Len(s) >= 1
    /\ \A i \in 1..Len(s) : s[i] \in AlnumLower \cup {"-"}
    /\ s[1] # "-"
    /\ s[Len(s)] # "-"
    /\ \A i \in 1..(Len(s) - 1) : ~(s[i] = "-" /\ s[i + 1] = "-")

\* C5: sanitizeFilename returns absent or a stem of 1..60 characters that
\* matches ^[a-z0-9]+(-[a-z0-9]+)*$
C5_SanitizeShape ==
    stage # "input" => (out.ok => IsStem(out.stem) /\ Len(out.stem) <= MaxStemLen)

\* C6: sanitizing a present stem again returns the same stem
C6_SanitizeIdempotent ==
    stage = "twice" => out2 = out

(***************************************************************************)
(* Properties of the filename allocation                                   *)
(***************************************************************************)
\* the name has the form base + '.' + extension (one or more characters)
PlainForm(name, base) ==
    /\ Len(name) >= Len(base) + 2
    /\ SubSeq(name, 1, Len(base)) = base
    /\ name[Len(base) + 1] = "."

\* the name has the form base + k digits + '.' + extension
NumberedForm(name, base, k) ==
    /\ k >= 1
    /\ Len(name) >= Len(base) + k + 2
    /\ SubSeq(name, 1, Len(base)) = base
    /\ \A i \in (Len(base) + 1)..(Len(base) + k) : name[i] \in Digits
    /\ name[Len(base) + k + 1] = "."

\* the numeric suffixes of the names of the form base + digits + '.' + extension
Suffixes(listing, base) ==
    {parseInt(SubSeq(f, Len(base) + 1, Len(base) + k)) :
        <<f, k>> \in {fk \in listing \X (1..8) : NumberedForm(fk[1], base, fk[2])}}

LowestFree(used) == CHOOSE n \in 1..(Cardinality(used) + 1) :
                        n \notin used /\ \A m \in 1..(n - 1) : m \in used

\* C3: when a name base.<ext> exists, create allocates base + n + extension,
\* n the lowest integer >= 1 that is no numeric suffix of an existing
\* base<digits>.<ext>, whatever the requested extension
C3_NumberedAllocation ==
    (creator.pc # "idle" /\ \E f \in creator.listing : PlainForm(f, creator.base))
        => creator.name = creator.base
                          \o NumberToString(LowestFree(Suffixes(creator.listing, creator.base)))
                          \o creator.ext

\* C4: when no name base.<ext> exists, create allocates base + extension
\* without a number, whatever numbered names exist
C4_PlainAllocation ==
    (creator.pc # "idle" /\ ~\E f \in creator.listing : PlainForm(f, creator.base))
        => creator.name = creator.base \o creator.ext

\* a create that found base.<ext> and numbers 1 and 3 in use took number 2
C3_Witness ==
    /\ creator.pc # "idle"
    /\ \E f \in creator.listing : PlainForm(f, creator.base)
    /\ {1, 3} \subseteq Suffixes(creator.listing, creator.base)
    /\ creator.name = creator.base \o <<"2">> \o creator.ext
    /\ creator.name \in files

\* a create that found numbered names but no base.<ext> took the plain name
C4_Witness ==
    /\ creator.pc # "idle"
    /\ ~\E f \in creator.listing : PlainForm(f, creator.base)
    /\ Suffixes(creator.listing, creator.base) # {}
    /\ creator.name = creator.base \o creator.ext
    /\ creator.name \in files

(***************************************************************************)
(* Properties of the provider chain                                        *)
(***************************************************************************)
IsStemOutcome(o) == o.kind = "value" /\ o.val.ok
IsAbsentOutcome(o) == o.kind = "value" /\ ~o.val.ok

\* C7: in mode auto, once the local backend has returned a stem the remote
\* backend is never invoked and suggestFilename returns that stem; the result
\* is always the result of one backend, never a blend
C7_AutoShortCircuit ==
    /\ (cfg.provider = "auto" /\ IsStemOutcome(ch.localRes))
          => /\ counts.remote = 0
             /\ counts.posts = 0
             /\ ch.pc \in {"local_return", "done"}
             /\ ch.pc = "done" => ch.result = ch.localRes
    /\ (ch.pc = "done" /\ IsStemOutcome(ch.result))
          => ch.result \in {ch.localRes, ch.remoteRes}

C7_Witness ==
    /\ cfg.provider = "auto"
    /\ cfg.apiKey = "sk-key"
    /\ IsStemOutcome(ch.localRes)
    /\ ch.pc = "done"

\* C8: mode vscode invokes only the local backend and returns its result;
\* mode openai invokes only the remote backend and returns its result; mode
\* auto invokes the remote backend exactly when the local one returned absent,
\* and then returns the remote result
C8_OrderingPolicy ==
    /\ cfg.provider = "vscode"
          => /\ counts.remote = 0 /\ counts.posts = 0
             /\ ch.pc = "done" => /\ counts.local = 1
                                  /\ ch.result = ch.localRes
    /\ cfg.provider = "openai"
          => /\ counts.local = 0 /\ counts.selects = 0 /\ counts.sends = 0
             /\ ch.pc = "done" => /\ counts.remote = 1
                                  /\ ch.result = ch.remoteRes
    /\ cfg.provider = "auto"
          => /\ counts.remote >= 1 => IsAbsentOutcome(ch.localRes)
             /\ ch.pc = "done" => /\ counts.local = 1
                                  /\ IsAbsentOutcome(ch.localRes) <=> counts.remote = 1
                                  /\ counts.remote = 1 => ch.result = ch.remoteRes

C8_Witness ==
    /\ cfg.provider = "auto"
    /\ ch.pc = "done"
    /\ IsAbsentOutcome(ch.localRes)
    /\ IsStemOutcome(ch.remoteRes)
    /\ ch.result = ch.remoteRes

LocalFaults == {"no_capability", "no_model", "select_throw", "send_throw", "stream_throw"}
RemoteFaults == {"network_error", "non2xx", "malformed_json", "missing_content", "timeout"}

\* C9: after any failure of a backend its call ends with absent, never with an
\* exception; suggestFilename never rejects, and in mode auto a failed local
\* backend is followed by the remote backend
C9_BackendsNeverThrow ==
    /\ ch.localRes.kind # "throw"
    /\ ch.remoteRes.kind # "throw"
    /\ ch.result.kind # "throw"
    /\ (faults \cap LocalFaults # {}) => IsAbsentOutcome(ch.localRes)
    /\ (faults \cap RemoteFaults # {}) => IsAbsentOutcome(ch.remoteRes)
    /\ (faults \cap LocalFaults # {} /\ cfg.provider = "auto" /\ ch.pc = "done")
          => counts.remote = 1 /\ ch.result = ch.remoteRes

C9_Witness ==
    /\ cfg.provider = "auto"
    /\ ch.pc = "done"
    /\ "send_throw" \in faults
    /\ "non2xx" \in faults

\* C10: with no API key configured (unset or empty) the remote backend returns
\* absent and sends no request
C10_NoKeyNoRequest ==
    cfg.apiKey \in {Undefined, ""}
        => /\ counts.posts = 0
           /\ ch.pc \notin {"post_pending", "post_streaming"}
           /\ ch.remoteRes.kind # "none" => IsAbsentOutcome(ch.remoteRes)

C10_Witness ==
    /\ cfg.apiKey = ""
    /\ counts.remote = 1
    /\ ch.pc = "done"

RemotePending == ch.pc \in {"post_pending", "post_streaming"}
RemoteCompleted == ch.remoteRes.kind = "value"

\* C11: a request that was sent is always followed by the return of the
\* remote backend: when the server is silent or stops sending, the timeout
\* rejects the pending request; no remote call stays pending for ever
C11_RemoteCallCompletes == RemotePending ~> RemoteCompleted

\* the same for the text of src/ai-filename.ts alone, which sets the timeout
RemoteCallCompletes_WithTimeout ==
    (build = "ai-filename.ts" /\ RemotePending)
        ~> (RemoteCompleted /\ ch.pc \in {"remote_return", "done"})

(***************************************************************************)
(* Properties of the auto-rename                                           *)
(***************************************************************************)
\* the contents on disk at the start
InitialContents == {InitialDisk[p] : p \in DOMAIN InitialDisk}
ContentsOnDisk == {disk[p] : p \in DOMAIN disk}

\* C1: no rename of an auto-rename lands on a path that names a file, so no
\* file is replaced or lost, also when attempts on different documents
\* interleave and receive the same stem
C1_NeverOverwrites ==
    /\ clobbered = {}
    /\ InitialContents \subseteq ContentsOnDisk

\* the stem, base name and destination of attempt a as the claim states them
StemOf(a) == a.suggestion.stem
BaseNameOf(a) ==
    LET name == a.doc[Len(a.doc)]
        ext == extname(name)
    IN SubSeq(name, 1, Len(name) - Len(ext))
DestinationOf(a) ==
    Append(Root, StemOf(a) \o extname(a.doc[Len(a.doc)]))
SamePathOn(plat, p, q) ==
    IF plat = "win32"
    THEN [i \in 1..Len(p) |-> toLowerCase(p[i])] = [i \in 1..Len(q) |-> toLowerCase(q[i])]
    ELSE p = q

\* C2: an attempt whose suggestion is absent, or equals the current base
\* name, or whose destination is the current path, or whose destination names
\* a file when it is checked, makes no rename call, then or later
C2_ZeroRenameCalls ==
    [][\A id \in Attempts :
          /\ (atts[id].pc = "suggest" /\ atts'[id].pc # "suggest")
                => LET a == atts'[id]
                   IN (\/ ~a.suggestion.ok
                       \/ StemOf(a) = BaseNameOf(a)
                       \/ SamePathOn(platform, DestinationOf(a), a.doc)
                       \/ \E q \in DOMAIN disk : SamePathOn(platform, q, DestinationOf(a)))
                          => a.pc = "done" /\ a.renames = 0
          /\ atts[id].pc = "done" => atts'[id] = atts[id]
          /\ atts'[id].renames > atts[id].renames => atts[id].pc = "suggest"]_vars

\* an attempt with a fresh stem found its destination taken and ended
\* without a rename call
C2_Witness ==
    \E id \in Attempts :
        LET a == atts[id]
        IN /\ a.pc = "done"
           /\ a.chainCalls = 1
           /\ a.suggestion.ok
           /\ StemOf(a) # BaseNameOf(a)
           /\ ~SamePathOn(platform, DestinationOf(a), a.doc)
           /\ DestinationOf(a) \in DOMAIN disk
           /\ a.renames = 0
           /\ a.skip = "exists"
(***************************************************************************)
(* Properties of the gates of one call                                     *)
(***************************************************************************)
\* the call has run its gates on a document
Triggered(a) == a.pc # "idle" /\ a.doc # <<>>

\* the minimum the settings ask for: the configured number, 20 when none is
ConfiguredMinimum(c) == IF c.minChars.set THEN c.minChars.n ELSE 20

\* C12: a trigger on a document whose trimmed text is shorter than the
\* configured minimum ends at once, with no provider call and no rename call
C12_SizeGate ==
    \A id \in Attempts :
        LET a == atts[id]
        IN (Triggered(a) /\ a.len < ConfiguredMinimum(conf))
              => a.pc = "done" /\ a.chainCalls = 0 /\ a.renames = 0

\* a scratchpad with the right name and 4 characters of text, minimum 5
C12_Witness ==
    \E id \in Attempts :
        LET a == atts[id]
        IN /\ a.skip = "short"
           /\ conf.minChars = SetTo(5)
           /\ a.len = 4
           /\ a.chainCalls = 0
           /\ a.renames = 0

\* the prefix the settings ask for: 'scratch' when none is configured
PrefixInForce(c) ==
    IF c.filePrefix = <<>> THEN <<"s", "c", "r", "a", "t", "c", "h">> ELSE c.filePrefix

\* base is exactly the prefix followed by zero or more digits
IsPrefixAndDigits(prefix, base) ==
    /\ Len(base) >= Len(prefix)
    /\ SubSeq(base, 1, Len(prefix)) = prefix
    /\ \A i \in (Len(prefix) + 1)..Len(base) : base[i] \in Digits

\* C13: the suggestion step is reached only for a base name that is the
\* prefix in force followed by zero or more digits, the prefix taken
\* literally; any other base name ends with no provider call and no rename
C13_NamingGate ==
    \A id \in Attempts :
        LET a == atts[id]
        IN Triggered(a) =>
              /\ a.chainCalls >= 1 => IsPrefixAndDigits(PrefixInForce(conf), BaseNameOf(a))
              /\ ~IsPrefixAndDigits(PrefixInForce(conf), BaseNameOf(a))
                    => a.pc = "done" /\ a.chainCalls = 0 /\ a.renames = 0

\* prefix 'S.' and the document Sx1.js, which an unescaped dot would accept
C13_Witness ==
    \E id \in Attempts :
        LET a == atts[id]
        IN /\ a.skip = "name"
           /\ conf.filePrefix = <<"S", ".">>
           /\ a.doc = Append(Root, <<"S", "x", "1", ".", "j", "s">>)
           /\ a.chainCalls = 0

\* a path with its letters in lower case on win32, as it is elsewhere
Folded(plat, p) ==
    IF plat = "win32"
    THEN [i \in 1..Len(p) |-> [j \in 1..Len(p[i]) |-> LowerChar(p[i][j])]]
    ELSE p

\* the directory of the document is the root or lies below it at any depth
InsideRoot(plat, fileName) ==
    LET d == Folded(plat, SubSeq(fileName, 1, Len(fileName) - 1))
        r == Folded(plat, Root)
    IN Len(d) >= Len(r) /\ SubSeq(d, 1, Len(r)) = r

\* C15: a trigger passes the first gate exactly when the directory of the
\* document, normalized, is the root or a directory below it, whatever the
\* directories are called; any other document ends with no provider call
\* and no rename
C15_MembershipGate ==
    \A id \in Attempts :
        LET a == atts[id]
        IN Triggered(a) =>
              /\ (a.skip # "not_scratchpad") <=> InsideRoot(platform, a.doc)
              /\ ~InsideRoot(platform, a.doc) => a.chainCalls = 0 /\ a.renames = 0

\* C20: for every configured minimum m >= 0 the size gate passes exactly
\* when the trimmed length is at least m; 20 applies only when no minimum is
\* configured
C20_SizeThreshold ==
    \A id \in Attempts :
        LET a == atts[id]
        IN (Triggered(a) /\ a.skip # "not_scratchpad")
              => ((a.skip # "short") <=> a.len >= ConfiguredMinimum(conf))
(***************************************************************************)
(* Properties of calls that follow or overlap one another                  *)
(***************************************************************************)
\* call b has renamed the file that call a had renamed before: the text that
\* was at a's document is now at b's destination, and b's document was a's
\* destination
RenamedAgain(a, b) ==
    /\ a # b
    /\ atts[a].doc \in DOMAIN InitialDisk
    /\ atts[a].suggestion.ok
    /\ atts[a].renames = 1
    /\ atts[b].doc = DestinationOf(atts[a])
    /\ atts[b].skip = "renamed"
    /\ DestinationOf(atts[b]) \in DOMAIN disk
    /\ disk[DestinationOf(atts[b])] = InitialDisk[atts[a].doc]

\* C14: a file that an auto-rename has renamed is never renamed by a later
\* auto-rename, whatever stem the providers return
C14_NeverRenamedAgain ==
    \A a, b \in Attempts : ~RenamedAgain(a, b)
\* C16: when the call resumes from the suggestion step and an editor holds
\* its document with unsaved changes, it ends there with no rename call and
\* leaves files and tabs as they are; a rename call is made only by a call
\* that saw no such editor at that moment, whatever it was at the trigger
C16_DirtyGuard ==
    [][\A id \in Attempts :
          /\ (/\ atts[id].pc = "suggest"
              /\ atts'[id].pc # "suggest"
              /\ atts[id].doc \in tabs
              /\ atts[id].doc \in dirty)
                => /\ atts'[id].pc = "done"
                   /\ atts'[id].renames = 0
                   /\ disk' = disk
                   /\ tabs' = tabs
          /\ atts'[id].renames > atts[id].renames
                => /\ atts[id].pc = "suggest"
                   /\ ~(atts[id].doc \in tabs /\ atts[id].doc \in dirty)
          /\ atts[id].pc = "done" => atts'[id].renames = atts[id].renames]_vars

\* a call that passed every earlier check found its document dirty and ended
C16_Witness ==
    \E id \in Attempts :
        /\ atts[id].skip = "dirty"
        /\ atts[id].doc \in dirty
        /\ atts[id].suggestion.ok
        /\ atts[id].renames = 0
        /\ disk = InitialDisk

\* C17: a call whose commit threw has ended normally, made its one rename
\* call and no other, and its file is still there under the old name (for a
\* document no other call works on)
C17_CommitFailure ==
    \A id \in Attempts :
        LET a == atts[id]
        IN a.skip = "commit_failed"
              => /\ a.pc = "done"
                 /\ a.renames = 1
                 /\ (\A b \in Attempts \ {id} : atts[b].doc # a.doc)
                       => existsSync(platform, disk, a.doc)

InProgress(a) == a.pc \notin {"idle", "done"}

\* C18: no two calls for the same document are in progress at the same time
C18_NoSameDocOverlap ==
    \A a, b \in Attempts :
        (a # b /\ InProgress(atts[a]) /\ InProgress(atts[b]))
            => atts[a].doc # atts[b].doc

(***************************************************************************)
(* Properties of the name a call renames to                                *)
(***************************************************************************)
\* sanitize as the contract states it, with the strip after the cut
sanitize(r) == sanitizeFilename("ai-filename.ts", r)
Scratch3 == Append(Root, <<"s", "c", "r", "a", "t", "c", "h", "3", ".", "j", "s">>)
ReverseStringHelper == <<"r", "e", "v", "e", "r", "s", "e", "-", "s", "t", "r", "i", "n", "g", "-", "h", "e", "l", "p", "e", "r">>

\* the step in which call A, all gates passed, calls Utils.renameFile
CommitsTo(newFilePath) ==
    /\ atts["A"].pc = "suggest"
    /\ atts'["A"].pc = "renaming"
    /\ atts'["A"].dest = newFilePath

\* the step in which the rename of call A takes effect
Lands ==
    /\ atts["A"].pc = "renaming"
    /\ atts'["A"].skip # "commit_failed"
    /\ atts'["A"].pc # "renaming"

\* the rule of the name, for the sanitizer san
EndToEndName(san(_)) ==
    /\ \A r \in GateRawTexts :
          (CommitsTo(atts'["A"].dest) /\ atts'["A"].suggestion = sanitizeFilename(build, r))
              => /\ san(r).ok
                 /\ atts'["A"].dest =
                        Append(Root, san(r).stem \o extname(basename(atts["A"].doc)))
    /\ Lands => /\ atts["A"].dest \in DOMAIN disk'
                /\ atts["A"].doc \notin DOMAIN disk'
                /\ disk'[atts["A"].dest] = disk[atts["A"].doc]

\* C19: a scratchpad that passes all gates, and whose backend returned the raw
\* text r, is renamed to sanitize(r) followed by the extension of the original
\* file name, in the scratchpads root: the rename call is made with that
\* destination and, when it takes effect, the file is there and no longer
\* under its old name.  scratch3.js with r = 'Reverse-String Helper!! .js'
\* goes to reverse-string-helper.js.
C19_EndToEndName ==
    [][ /\ EndToEndName(sanitize)
        /\ (atts["A"].doc = Scratch3 /\ CommitsTo(atts'["A"].dest)
              /\ atts'["A"].suggestion = sanitizeFilename(build, ExampleRaw))
             => atts'["A"].dest = Append(Root, ReverseStringHelper \o <<".", "j", "s">>) ]_vars

\* the same rule with the sanitizer of the build in place of the contract's
EndToEndName_OfBuild ==
    [][ LET san(r) == sanitizeFilename(build, r) IN EndToEndName(san) ]_vars

\* the example has happened: the text of scratch3.js is under the new name
Example_Renamed ==
    /\ atts["A"].skip = "renamed"
    /\ Append(Root, ReverseStringHelper \o <<".", "j", "s">>) \in DOMAIN disk
    /\ disk[Append(Root, ReverseStringHelper \o <<".", "j", "s">>)] = GateDisk[Scratch3]
    /\ Scratch3 \notin DOMAIN disk

(***************************************************************************)
(* Properties of the tabs after a rename                                   *)
(***************************************************************************)
\* the step in which call id ends after a rename and all that follows it
\* succeeded
EndsRenamed(id) ==
    /\ atts[id].pc \in {"renaming", "opening"}
    /\ atts'[id].pc = "done"
    /\ atts'[id].skip = "renamed"

\* C21: when a call ends with a successful rename and an editor was open on
\* the old path, no tab shows the old path and the new path is open; when no
\* editor was open on the old path the call closes no tab and opens no
\* document, only the file has moved.
C21_TabHandling ==
    [][ \A id \in Attempts :
          EndsRenamed(id) =>
              IF atts[id].hadEditor
              THEN /\ atts[id].doc \notin tabs'
                   /\ atts[id].dest \in tabs'
                   /\ atts[id].dest \in DOMAIN disk'
              ELSE /\ tabs' = tabs
                   /\ atts[id].pc = "renaming"
                   /\ atts[id].dest \in DOMAIN disk' ]_vars

\* a call has ended with a rename, its old path is in no tab and a tab shows
\* a path that no tab showed at the start
C21_Witness ==
    \E id \in Attempts :
        /\ atts[id].skip = "renamed"
        /\ atts[id].doc \notin tabs
        /\ \E p \in tabs : p \notin DOMAIN InitialDisk

(***************************************************************************)
(* sanitizeFilename and the lines of its input                             *)
(***************************************************************************)
\* the positions at which raw splits into a line l without a newline, a
\* newline, and the rest
FirstBreaks ==
    {i \in 1..Len(raw) : raw[i] = "\n" /\ \A j \in 1..(i - 1) : raw[j] # "\n"}

\* C22: sanitize depends only on the first line of its input: for a raw text
\* l + newline + rest, with no newline in l, the result is the result for l
\* alone, and it is absent when l is empty or all whitespace, whatever text
\* the later lines hold.
C22_FirstLineOnly ==
    stage # "input" =>
        \A i \in FirstBreaks :
            LET l == SubSeq(raw, 1, i - 1)
            IN /\ out = sanitizeFilename(build, l)
               /\ (\A j \in 1..Len(l) : l[j] \in Whitespace) => ~out.ok

\* a text with nothing but whitespace on its first line and a letter on a
\* later line has been sanitized to absent
C22_Witness ==
    /\ stage = "once"
    /\ \E i \in FirstBreaks :
          /\ i > 1
          /\ \A j \in 1..(i - 1) : raw[j] \in Whitespace
          /\ \E k \in (i + 1)..Len(raw) : raw[k] \in AlnumLower
    /\ ~out.ok

(***************************************************************************)
(* One suggestFilename call makes each of its calls once                   *)
(***************************************************************************)
\* C23: no retry.  Within one call of the provider chain each backend is
\* entered at most once, the remote backend sends at most one POST request
\* and the local backend at most one model request; the selectors are asked
\* in list order, none after the first that resolves a model, the request
\* goes to that model, and no request is sent when no selector resolves.
C23_NoRetry ==
    /\ counts.chain <= 1
    /\ counts.local <= 1
    /\ counts.remote <= 1
    /\ counts.posts <= 1
    /\ counts.sends <= 1
    /\ counts.selects <= SelectorCount
    /\ counts.sends = Cardinality(counts.resolved)
    /\ \A k \in counts.resolved : counts.selects = k
    /\ ch.pc = "local_select" => ch.sel = counts.selects /\ counts.resolved = {}
    /\ ch.pc \in {"local_send", "local_stream"} => counts.resolved = {ch.sel}
    /\ "no_model" \in faults => counts.sends = 0 /\ counts.selects = SelectorCount

\* the call is over after both backends ran: the second selector resolved a
\* model, its one request gave no stem, and the one POST request failed
C23_Witness ==
    /\ ch.pc = "done"
    /\ counts.resolved = {2}
    /\ counts.sends = 1
    /\ counts.posts = 1
    /\ faults \cap {"network_error", "timeout", "non2xx"} # {}

(***************************************************************************)
(* Properties of remove-all                                                *)
(***************************************************************************)
\* a removeAllScratchpads call begins
RemoveAllBegins == removal.pc = "idle" /\ removal'.calls = removal.calls + 1
\* the user gives this answer to the question of the call in progress
Answered(a) == removal.pc = "prompt" /\ removal'.pc # "prompt" /\ removal'.answer = a

C25_FreshNames ==
    creator.pc # "idle" => creator.name \notin creator.listing

\* a create found base.<ext> and the number 1 taken, and has written a file
\* under a name that was not there
C25_Witness ==
    /\ creator.pc = "opening"
    /\ \E f \in creator.listing : PlainForm(f, creator.base)
    /\ 1 \in Suffixes(creator.listing, creator.base)
    /\ creator.name \notin creator.listing
    /\ creator.name \in files

\* the step in which a call, c before and d after, writes its file
WritesFile(c, d) == c.pc # "opening" /\ d.pc = "opening"

\* C26: two creates that interleave never write to the same filename: each
\* write, of the first call or the second, is to a name that no file has, so
\* neither call overwrites the file of the other.
C26_InterleavedCreates ==
    [][ /\ WritesFile(creator, creator') => creator'.name \notin files
        /\ WritesFile(second, second') => second'.name \notin files ]_vars

\* the same for calls that do not suspend between choice and write
InterleavedCreates_NoAutoPaste ==
    [][ ~autoPaste =>
          /\ WritesFile(creator, creator') => creator'.name \notin files
          /\ WritesFile(second, second') => second'.name \notin files ]_vars

(***************************************************************************)
(* Calls on the same document that overlap                                 *)
(***************************************************************************)
\* both calls were started on the same document and have ended
BothEndedOnSameDoc ==
    /\ atts["A"].pc = "done"
    /\ atts["B"].pc = "done"
    /\ atts["A"].doc = atts["B"].doc
    /\ atts["A"].doc \in DOMAIN InitialDisk

\* the paths that hold the content the document had at the start
NamesOf(doc) == {p \in DOMAIN disk : disk[p] = InitialDisk[doc]}

\* C27: of the calls on one document, at most one has its rename take
\* effect; every other call ends without a rename call of its own (a no-op)
\* or with a caught failure, and when all have ended the file is under
\* exactly one name.
C27_AtMostOneCommits ==
    (atts["A"].doc = atts["B"].doc /\ atts["A"].doc # <<>>) =>
        /\ ~(atts["A"].landed /\ atts["B"].landed)
        /\ \A id \in Attempts :
              (atts[id].pc = "done" /\ ~atts[id].landed) =>
                  atts[id].skip \in {"not_scratchpad", "short", "name", "absent", "unchanged",
                                     "same_path", "exists", "dirty", "commit_failed"}
        /\ BothEndedOnSameDoc => Cardinality(NamesOf(atts["A"].doc)) = 1

(***************************************************************************)
(* The directory a call renames into                                       *)
(***************************************************************************)
NestedS2 == Append(Nested, <<"S", "2", ".", "j", "s">>)

\* C28: the destination of a rename is the scratchpads root joined with
\* stem + original extension, whatever directory the document is in: the
\* rename call is made only when no file is at that path of the root, it is
\* made with that path, and a document from a directory below the root ends
\* up in the root itself.
C28_DestinationInRoot ==
    [][ /\ CommitsTo(atts'["A"].dest) =>
              /\ dirname(atts'["A"].dest) = projectScratchpadsPath
              /\ basename(atts'["A"].dest) =
                     atts'["A"].suggestion.stem \o extname(basename(atts["A"].doc))
              /\ ~existsSync(platform, disk, atts'["A"].dest)
        /\ Lands =>
              /\ dirname(atts["A"].dest) = projectScratchpadsPath
              /\ atts["A"].dest \in DOMAIN disk'
              /\ atts["A"].doc \notin DOMAIN disk'
              /\ disk'[atts["A"].dest] = disk[atts["A"].doc] ]_vars

\* the file that was in a directory below the root is in the root under the
\* new name
C28_Witness ==
    /\ atts["A"].doc = NestedS2
    /\ atts["A"].landed
    /\ NestedS2 \notin DOMAIN disk
    /\ \E p \in DOMAIN disk :
          /\ dirname(p) = Root
          /\ disk[p] = GateDisk[NestedS2]

(***************************************************************************)
(* The provider setting and its fallback                                   *)
(***************************************************************************)
KnownProviders == {"auto", "vscode", "openai"}

\* C29: a provider setting that is not set or is the empty text behaves as
\* auto (the local backend once, the remote backend exactly when the local
\* one gave absent, the result that of the last backend run); any other
\* value that is not auto, vscode or openai makes suggestFilename return
\* absent with no backend entered and no request of any kind.
C29_ProviderFallback ==
    /\ cfg.provider \in {Undefined, ""} =>
          /\ ch.pc # "idle" => ch.provider = "auto"
          /\ counts.remote >= 1 => IsAbsentOutcome(ch.localRes)
          /\ ch.pc = "done" =>
                /\ counts.local = 1
                /\ IsAbsentOutcome(ch.localRes) <=> counts.remote = 1
                /\ ch.result = IF counts.remote = 1 THEN ch.remoteRes ELSE ch.localRes
    /\ cfg.provider \notin KnownProviders \cup {Undefined, ""} =>
          /\ counts.local = 0 /\ counts.remote = 0
          /\ counts.selects = 0 /\ counts.sends = 0 /\ counts.posts = 0
          /\ ch.pc \in {"idle", "done"}
          /\ ch.pc = "done" => ch.result = Value(Absent)

\* with the empty text as the setting the local backend gave absent and the
\* remote backend a stem, which is the result
C29_Witness ==
    /\ cfg.provider = ""
    /\ ch.pc = "done"
    /\ counts.local = 1
    /\ counts.remote = 1
    /\ IsStemOutcome(ch.result)
====
